---- MODULE Spec2Model ----
(***************************************************************************)
(* Verification model of opentelemetry-instrumentation-tokio.              *)
(*                                                                         *)
(* The crate keeps, per Rust module, a one-time latch                      *)
(* (INSTRUMENTS_INITIALIZED) and a reader/writer-locked vector of tracked  *)
(* runtimes (RUNTIMES).  src/lib.rs declares one pair (used by             *)
(* Config::observe_runtime) and src/runtime.rs declares another pair (used *)
(* by track_runtime and by every instrument callback).  Both pairs are     *)
(* state of the model, indexed by the module that owns them.               *)
(***************************************************************************)
EXTENDS Integers, Sequences, FiniteSets, TLC

(***************************************************************************)
(* Bounds of the model.                                                    *)
(***************************************************************************)
\* number of threads that each issue one attach call
NumThreads == 2
\* worker threads of the largest modelled runtime
MaxWorkers == 2
\* histogram buckets of the largest modelled runtime
MaxBuckets == 3
\* width, in bits, that stands for the 64-bit unsigned width
UBits == 4
\* label pairs one Config is given at most
MaxLabels == 3

Threads == 1..NumThreads
\* the provider threads that invoke instrument callbacks
Callbacks == {"p1", "p2"}

\* the two Rust modules that each own a latch and a registry
Modules == {"lib", "runtime"}

(***************************************************************************)
(* Integer widths (scaled: UBits stands for 64).                           *)
(***************************************************************************)
U64_MAX == 2^UBits - 1
I64_MAX == 2^(UBits - 1) - 1

\* a narrowing cast (`v as u64`) in place of the checked conversion
SaturatingU64_Wrapping(v) == v % (U64_MAX + 1)

\* `v.try_into().unwrap_or(u64::MAX)`
SaturatingU64(v) == IF v > U64_MAX THEN U64_MAX ELSE v

\* a narrowing cast (`v as i64`) in place of the checked conversion
SaturatingI64_Wrapping(v) ==
    ((v + I64_MAX + 1) % (2 * (I64_MAX + 1))) - (I64_MAX + 1)

\* `v.try_into().unwrap_or(i64::MAX)`
SaturatingI64(v) == IF v > I64_MAX THEN I64_MAX ELSE v

(***************************************************************************)
(* opentelemetry KeyValue: a key and a typed value.                        *)
(***************************************************************************)
Str(s) == [type |-> "String", str |-> s]
I64(i) == [type |-> "I64", i64 |-> i]
KeyValue(k, v) == [key |-> k, value |-> v]

(***************************************************************************)
(* The tokio runtimes a caller can attach, and what their RuntimeMetrics   *)
(* report.  The runtime is an external collaborator; each handle stands    *)
(* for one runtime with a fixed snapshot.                                  *)
(*   rtA: MaxWorkers workers, histogram enabled, MaxBuckets buckets        *)
(*   rtB: one worker, histogram disabled                                   *)
(*   rtC: no worker, histogram enabled                                     *)
(*   rtD: one worker, histogram enabled, bucket counts near the u64 limit  *)
(***************************************************************************)
Handles == {"rtA", "rtB", "rtC", "rtD"}

num_workers(h) ==
    CASE h = "rtA" -> MaxWorkers
      [] h = "rtB" -> 1
      [] h = "rtC" -> 0
      [] h = "rtD" -> 1

global_queue_depth(h) ==
    CASE h = "rtA" -> 3
      [] h = "rtB" -> 0
      [] h = "rtC" -> 1
      [] h = "rtD" -> U64_MAX

num_alive_tasks(h) ==
    CASE h = "rtA" -> 5
      [] h = "rtB" -> 1
      [] h = "rtC" -> 0
      [] h = "rtD" -> 2

worker_park_count(h, w) ==
    CASE h = "rtA" -> 2 * w + 1
      [] h = "rtB" -> 4
      [] h = "rtC" -> 0
      [] h = "rtD" -> U64_MAX

poll_time_histogram_enabled(h) == h # "rtB"

poll_time_histogram_num_buckets(h) ==
    CASE h = "rtA" -> MaxBuckets
      [] h = "rtB" -> 2
      [] h = "rtC" -> 1
      [] h = "rtD" -> 2

\* `poll_time_histogram_bucket_range(i).end.as_nanos()`, bucket i counted from 0
poll_time_histogram_bucket_end_nanos(h, i) ==
    CASE h = "rtD" -> U64_MAX + i
      [] OTHER -> i + 1

\* `poll_time_histogram_bucket_count(worker, bucket)`, both counted from 0
poll_time_histogram_bucket_count(h, w, b) ==
    CASE h = "rtA" -> (w + 2 * b) % 3
      [] h = "rtB" -> 1
      [] h = "rtC" -> 0
      [] h = "rtD" -> IF b = 0 THEN U64_MAX ELSE 1

\* `handle.id().to_string()`
runtime_id(h) == Str(h)

(***************************************************************************)
(* Arguments of one attach call: the runtime handle and the labels the     *)
(* caller gave to the Config builder.                                      *)
(***************************************************************************)
AttachInputs ==
    { [handle |-> "rtA", labels |-> <<KeyValue("env", Str("prod"))>>],
      [handle |-> "rtB", labels |-> <<KeyValue("env", Str("staging"))>>],
      [handle |-> "rtC", labels |-> <<KeyValue("env", Str("prod"))>>],
      [handle |-> "rtD", labels |-> <<>>] }

(***************************************************************************)
(* State.                                                                  *)
(***************************************************************************)
VARIABLES
    tokio_unstable,          \* build configuration: `--cfg tokio_unstable`
    INSTRUMENTS_INITIALIZED, \* per module: state of the `Once`
    RUNTIMES,                \* per module: the Vec<TrackedRuntime> in the RwLock
    rwlock,                  \* per module: who holds the RwLock of RUNTIMES
    registrations,           \* how often register_all_instruments has run
    instruments,             \* instrument names registered with the meter
    pc,                      \* per attaching thread: position in the attach call
    call,                    \* per attaching thread: the entry point it called
    cbpc,                    \* per provider thread: position in the callback
    cb,                      \* per provider thread: the running callback, with
                             \* after_attach: it began after every attach returned
    narrow,                  \* the last value an instrument narrowed and observed
    config,                  \* the Config a caller is building
    given,                   \* the label pairs the caller has given it, in call order
    last,                    \* history: the last returned pass of a per-runtime
                             \* instrument, with the attributes it observed
    label                    \* the last label built from a native number

\* the state of the attach calls and of the callbacks
shared == <<tokio_unstable, INSTRUMENTS_INITIALIZED, RUNTIMES, rwlock,
            registrations, instruments, pc, call, cbpc, cb>>

\* the state of the sequential checks of single functions
aux == <<narrow, config, given, last, label>>

vars == <<shared, aux>>

NoCall == ""
NoCallback == [instrument |-> "", after_attach |-> FALSE, out |-> <<>>]
NoLabel == [native |-> <<>>, attribute |-> KeyValue("", Str(""))]
NoValue == [instrument |-> "", native |-> <<>>, observed |-> 0]
Unlocked == [writer |-> {}, readers |-> {}, poisoned |-> FALSE]

Range(s) == { s[i] : i \in 1..Len(s) }

\* the module whose statics an entry point uses
Owner(entry) == IF entry = "observe_runtime" THEN "lib" ELSE "runtime"

\* `Config::new()`
Config_new == [labels |-> <<>>]

Init ==
    /\ tokio_unstable \in BOOLEAN
    /\ INSTRUMENTS_INITIALIZED = [m \in Modules |-> "Incomplete"]
    /\ RUNTIMES = [m \in Modules |-> <<>>]
    /\ rwlock = [m \in Modules |-> Unlocked]
    /\ registrations = 0
    /\ instruments = <<>>
    /\ pc = [t \in Threads |-> "idle"]
    /\ call = [t \in Threads |-> NoCall]
    /\ cbpc = [c \in Callbacks |-> "idle"]
    /\ cb = [c \in Callbacks |-> NoCallback]
    /\ narrow = NoValue
    /\ config = Config_new
    /\ given = <<>>
    /\ last = {}
    /\ label = NoLabel

(***************************************************************************)
(* build_runtime_labels: the caller's labels, followed by tokio.runtime.id *)
(* when the crate is built with tokio_unstable.                            *)
(***************************************************************************)
build_runtime_labels(handle, labels) ==
    IF tokio_unstable
    THEN Append(labels, KeyValue("tokio.runtime.id", runtime_id(handle)))
    ELSE labels

TrackedRuntime(handle, labels) == [metrics |-> handle, labels |-> labels]

\* a push that overwrites the last slot instead of growing the vector
VecPush_Overwrite(v, e) ==
    IF v = <<>> THEN <<e>> ELSE [v EXCEPT ![Len(v)] = e]

\* a push at the front of the vector
VecPush_Front(v, e) == <<e>> \o v

\* a registry that keeps the newest runtime only
VecPush_Newest(v, e) == <<e>>

\* `runtimes.push(..)`
VecPush(v, e) == Append(v, e)

(***************************************************************************)
(* std::sync::Once and std::sync::RwLock as the code uses them.            *)
(***************************************************************************)
\* a latch without the compare-and-swap: a second caller also runs the closure
OnceRunsClosure_Racy(state) == state \in {"Incomplete", "Running"}

\* call_once runs the closure when the latch has not been started
OnceRunsClosure(state) == state = "Incomplete"

\* a latch that does not wait for the running closure
OncePasses_NoWait(state) == state # "Incomplete"

\* call_once returns (at once, or after waiting) when the latch is complete
OncePasses(state) == state = "Complete"

\* `.write()` is granted when nobody holds the lock
CanWrite(l) == l.writer = {} /\ l.readers = {}

\* a plain mutex in place of the reader/writer lock
CanRead_Mutex(l) == l.writer = {} /\ l.readers = {}

\* `.read()` is granted when no writer holds the lock
CanRead(l) == l.writer = {}

(***************************************************************************)
(* The instrument catalog that register_all_instruments registers.  The    *)
(* catalog holds every shape of callback: per-runtime gauges, a per-worker *)
(* counter and the poll-time histogram.  (The remaining instruments of the *)
(* source repeat the per-runtime or the per-worker shape with another      *)
(* metric.)                                                                *)
(***************************************************************************)
target_has_atomic_64 == TRUE

GlobalInstruments ==
    {"tokio.workers", "tokio.global_queue_depth", "tokio.alive_tasks"}
WorkerInstruments == {"tokio.worker.park_count"}
HistogramInstrument == "tokio.worker.poll_time_bucket"

Catalog ==
    <<"tokio.workers", "tokio.global_queue_depth", "tokio.alive_tasks">>
    \o (IF target_has_atomic_64 THEN <<"tokio.worker.park_count">> ELSE <<>>)
    \o (IF tokio_unstable THEN <<"tokio.worker.poll_time_bucket">> ELSE <<>>)

(***************************************************************************)
(* What one callback invocation observes.  An observation is the value     *)
(* and the attribute sequence passed to `instrument.observe`.              *)
(***************************************************************************)
Observation(v, attrs) == [value |-> v, attributes |-> attrs]

\* worker_idx_attribute
worker_idx_attribute(i) == KeyValue("tokio.worker.index", I64(SaturatingI64(i)))

\* the value a per-runtime instrument reads from RuntimeMetrics
GlobalMetric(name, h) ==
    CASE name = "tokio.workers" -> SaturatingU64(num_workers(h))
      [] name = "tokio.global_queue_depth" -> SaturatingU64(global_queue_depth(h))
      [] name = "tokio.alive_tasks" -> SaturatingU64(num_alive_tasks(h))

\* a per-runtime gauge written with the body of a per-worker instrument
ObserveGlobal_PerWorker(name, runtime) ==
    [ i \in 1..num_workers(runtime.metrics) |->
        Observation(GlobalMetric(name, runtime.metrics),
                    Append(runtime.labels, worker_idx_attribute(i - 1))) ]

\* body of the `for runtime in runtimes.iter()` loop of a per-runtime gauge
ObserveGlobal(name, runtime) ==
    << Observation(GlobalMetric(name, runtime.metrics), runtime.labels) >>

\* a worker loop `1..=num_workers` in place of `0..num_workers`
ObserveWorkers_OffByOne(name, runtime) ==
    [ i \in 1..num_workers(runtime.metrics) |->
        Observation(worker_park_count(runtime.metrics, i),
                    Append(runtime.labels, worker_idx_attribute(i))) ]

\* body of the runtime loop of a per-worker instrument: `for worker_idx in
\* 0..num_workers`, attributes are a clone of the labels plus the worker index
ObserveWorkers(name, runtime) ==
    [ i \in 1..num_workers(runtime.metrics) |->
        Observation(worker_park_count(runtime.metrics, i - 1),
                    Append(runtime.labels, worker_idx_attribute(i - 1))) ]

\* the numeric `le` attribute of a bucket whose range ends at end_nanos:
\* `KeyValue::new("le", range.end.as_nanos().try_into().unwrap_or(i64::MAX))`
le_attribute(end_nanos) == KeyValue("le", I64(SaturatingI64(end_nanos)))

\* the `le` attributes prepared per runtime; the last one becomes "+Inf"
HistogramBuckets(h) ==
    LET n == poll_time_histogram_num_buckets(h)
        numeric == [ i \in 1..n |->
            le_attribute(poll_time_histogram_bucket_end_nanos(h, i - 1)) ]
    IN  IF n > 0
        THEN [numeric EXCEPT ![n] = KeyValue("le", Str("+Inf"))]
        ELSE numeric

\* `sum += count` on a u64: with overflow checks the addition panics,
\* without them it wraps
RECURSIVE HistogramWorker(_, _, _, _, _, _, _)
HistogramWorker(runtime, buckets, w, k, sum, checks, out) ==
    IF k > Len(buckets)
    THEN [out |-> out, panic |-> FALSE]
    ELSE LET count == poll_time_histogram_bucket_count(runtime.metrics, w, k - 1)
             exact == sum + count
         IN  IF exact > U64_MAX /\ checks
             THEN [out |-> out, panic |-> TRUE]
             ELSE LET next == exact % (U64_MAX + 1)
                      attributes ==
                          Append(Append(runtime.labels, worker_idx_attribute(w)),
                                 buckets[k])
                  IN  HistogramWorker(runtime, buckets, w, k + 1, next, checks,
                                      Append(out, Observation(next, attributes)))

\* `for worker_idx in 0..num_workers { let mut sum = 0u64; ... }`
RECURSIVE HistogramWorkers(_, _, _, _, _)
HistogramWorkers(runtime, buckets, w, checks, out) ==
    IF w >= num_workers(runtime.metrics)
    THEN [out |-> out, panic |-> FALSE]
    ELSE LET r == HistogramWorker(runtime, buckets, w, 1, 0, checks, out)
         IN  IF r.panic
             THEN r
             ELSE HistogramWorkers(runtime, buckets, w + 1, checks, r.out)

\* body of the runtime loop of the poll-time histogram
ObserveHistogram(runtime, checks) ==
    IF ~ poll_time_histogram_enabled(runtime.metrics)
    THEN [out |-> <<>>, panic |-> FALSE]
    ELSE HistogramWorkers(runtime, HistogramBuckets(runtime.metrics), 0, checks, <<>>)

\* one pass of the runtime loop of the callback of instrument `name`
ObserveRuntimeEntry(name, runtime, checks) ==
    IF name \in GlobalInstruments
    THEN [out |-> ObserveGlobal(name, runtime), panic |-> FALSE]
    ELSE IF name \in WorkerInstruments
    THEN [out |-> ObserveWorkers(name, runtime), panic |-> FALSE]
    ELSE ObserveHistogram(runtime, checks)

\* `for runtime in runtimes.iter() { .. }` from entry i on; a panic ends it
RECURSIVE Collect(_, _, _, _, _)
Collect(name, runtimes, i, checks, out) ==
    IF i > Len(runtimes)
    THEN [out |-> out, panic |-> FALSE]
    ELSE LET r == ObserveRuntimeEntry(name, runtimes[i], checks)
         IN  IF r.panic
             THEN [out |-> out \o r.out, panic |-> TRUE]
             ELSE Collect(name, runtimes, i + 1, checks, out \o r.out)

(***************************************************************************)
(* Attach.  Config::observe_runtime (src/lib.rs) and track_runtime         *)
(* (src/runtime.rs) run the same steps, each on the statics of its own     *)
(* module: pass the latch, build the labels, take the write lock, push.    *)
(***************************************************************************)
\* a caller enters Config::observe_runtime
observe_runtime(t) ==
    /\ pc[t] = "idle"
    /\ pc' = [pc EXCEPT ![t] = "call_once"]
    /\ call' = [call EXCEPT ![t] = "observe_runtime"]
    /\ UNCHANGED <<aux, tokio_unstable, INSTRUMENTS_INITIALIZED, RUNTIMES, rwlock,
                   registrations, instruments, cbpc, cb>>

\* a convenience form that passes the latch before it looks for the runtime
observe_current_runtime_LatchFirst(t) ==
    /\ pc[t] = "idle"
    /\ \E in_runtime_context \in BOOLEAN :
          IF in_runtime_context
          THEN /\ pc' = [pc EXCEPT ![t] = "call_once"]
               /\ call' = [call EXCEPT ![t] = "observe_runtime"]
               /\ UNCHANGED <<INSTRUMENTS_INITIALIZED, registrations, instruments>>
          ELSE /\ pc' = [pc EXCEPT ![t] = "panicked"]
               /\ INSTRUMENTS_INITIALIZED' =
                      [INSTRUMENTS_INITIALIZED EXCEPT !["lib"] = "Complete"]
               /\ registrations' = registrations + 1
               /\ instruments' = instruments \o Catalog
               /\ UNCHANGED call
    /\ UNCHANGED <<aux, tokio_unstable, RUNTIMES, rwlock, cbpc, cb>>

\* a caller enters Config::observe_current_runtime: `Handle::current()`
\* panics when the thread is in no runtime context, otherwise the call goes
\* on as Config::observe_runtime with that handle
observe_current_runtime(t) ==
    /\ pc[t] = "idle"
    /\ \E in_runtime_context \in BOOLEAN :
          IF in_runtime_context
          THEN /\ pc' = [pc EXCEPT ![t] = "call_once"]
               /\ call' = [call EXCEPT ![t] = "observe_runtime"]
          ELSE /\ pc' = [pc EXCEPT ![t] = "panicked"]
               /\ UNCHANGED call
    /\ UNCHANGED <<aux, tokio_unstable, INSTRUMENTS_INITIALIZED, RUNTIMES, rwlock,
                   registrations, instruments, cbpc, cb>>

\* crate code enters track_runtime
track_runtime(t) ==
    /\ pc[t] = "idle"
    /\ pc' = [pc EXCEPT ![t] = "call_once"]
    /\ call' = [call EXCEPT ![t] = "track_runtime"]
    /\ UNCHANGED <<aux, tokio_unstable, INSTRUMENTS_INITIALIZED, RUNTIMES, rwlock,
                   registrations, instruments, cbpc, cb>>

\* call_once on a latch nobody has started: this thread runs the closure
call_once_run(t) ==
    LET m == Owner(call[t]) IN
    /\ pc[t] = "call_once"
    /\ OnceRunsClosure(INSTRUMENTS_INITIALIZED[m])
    /\ INSTRUMENTS_INITIALIZED' = [INSTRUMENTS_INITIALIZED EXCEPT ![m] = "Running"]
    /\ registrations' = registrations + 1
    /\ pc' = [pc EXCEPT ![t] = "register"]
    /\ UNCHANGED <<aux, tokio_unstable, RUNTIMES, rwlock, instruments, call, cbpc, cb>>

\* the closure: register_all_instruments; then the latch is complete
register_all_instruments(t) ==
    LET m == Owner(call[t]) IN
    /\ pc[t] = "register"
    /\ instruments' = instruments \o Catalog
    /\ INSTRUMENTS_INITIALIZED' = [INSTRUMENTS_INITIALIZED EXCEPT ![m] = "Complete"]
    /\ pc' = [pc EXCEPT ![t] = "write"]
    /\ UNCHANGED <<aux, tokio_unstable, RUNTIMES, rwlock, registrations, call, cbpc, cb>>

\* the closure panics after it has registered some of the instruments: the
\* latch is poisoned and the panic unwinds through the attach call
register_panics(t) ==
    LET m == Owner(call[t]) IN
    /\ pc[t] = "register"
    /\ \E k \in 0..(Len(Catalog) - 1) :
          instruments' = instruments \o SubSeq(Catalog, 1, k)
    /\ INSTRUMENTS_INITIALIZED' = [INSTRUMENTS_INITIALIZED EXCEPT ![m] = "Poisoned"]
    /\ pc' = [pc EXCEPT ![t] = "panicked"]
    /\ UNCHANGED <<aux, tokio_unstable, RUNTIMES, rwlock, registrations, call, cbpc, cb>>

\* a call_once that takes a poisoned latch for a complete one
call_once_poisoned_Ignored(t) ==
    LET m == Owner(call[t]) IN
    /\ pc[t] = "call_once"
    /\ INSTRUMENTS_INITIALIZED[m] = "Poisoned"
    /\ pc' = [pc EXCEPT ![t] = "write"]
    /\ UNCHANGED <<aux, tokio_unstable, INSTRUMENTS_INITIALIZED, RUNTIMES, rwlock,
                   registrations, instruments, call, cbpc, cb>>

\* call_once on a poisoned latch panics, at once or after waiting for the
\* closure that panicked
call_once_poisoned(t) ==
    LET m == Owner(call[t]) IN
    /\ pc[t] = "call_once"
    /\ INSTRUMENTS_INITIALIZED[m] = "Poisoned"
    /\ pc' = [pc EXCEPT ![t] = "panicked"]
    /\ UNCHANGED <<aux, tokio_unstable, INSTRUMENTS_INITIALIZED, RUNTIMES, rwlock,
                   registrations, instruments, call, cbpc, cb>>

\* call_once on a complete latch returns; on a running latch it waits
call_once_pass(t) ==
    LET m == Owner(call[t]) IN
    /\ pc[t] = "call_once"
    /\ OncePasses(INSTRUMENTS_INITIALIZED[m])
    /\ pc' = [pc EXCEPT ![t] = "write"]
    /\ UNCHANGED <<aux, tokio_unstable, INSTRUMENTS_INITIALIZED, RUNTIMES, rwlock,
                   registrations, instruments, call, cbpc, cb>>

\* `RUNTIMES.write().unwrap()`: the lock is granted as soon as nobody holds
\* it; `write()` of a poisoned lock is an Err and `unwrap()` panics, which
\* drops the guard inside the Err
write_lock(t) ==
    LET m == Owner(call[t]) IN
    /\ pc[t] = "write"
    /\ CanWrite(rwlock[m])
    /\ IF rwlock[m].poisoned
       THEN /\ pc' = [pc EXCEPT ![t] = "panicked"]
            /\ UNCHANGED rwlock
       ELSE /\ pc' = [pc EXCEPT ![t] = "push"]
            /\ rwlock' = [rwlock EXCEPT ![m].writer = {t}]
    /\ UNCHANGED <<aux, tokio_unstable, INSTRUMENTS_INITIALIZED, RUNTIMES,
                   registrations, instruments, call, cbpc, cb>>

\* a push that returns without dropping the write guard
push_KeepsGuard(t) ==
    LET m == Owner(call[t]) IN
    /\ pc[t] = "push"
    /\ \E in \in AttachInputs :
          LET labels == build_runtime_labels(in.handle, in.labels) IN
          RUNTIMES' = [RUNTIMES EXCEPT
              ![m] = VecPush(@, TrackedRuntime(in.handle, labels))]
    /\ pc' = [pc EXCEPT ![t] = "done"]
    /\ UNCHANGED <<aux, tokio_unstable, INSTRUMENTS_INITIALIZED, rwlock,
                   registrations, instruments, call, cbpc, cb>>

\* the labels are built from the arguments (a thread-local computation,
\* taken together with the step that uses its result), then
\* `runtimes.push(TrackedRuntime { metrics, labels })`, then the guard drops
push(t) ==
    LET m == Owner(call[t]) IN
    /\ pc[t] = "push"
    /\ \E in \in AttachInputs :
          LET labels == build_runtime_labels(in.handle, in.labels) IN
          RUNTIMES' = [RUNTIMES EXCEPT
              ![m] = VecPush(@, TrackedRuntime(in.handle, labels))]
    /\ rwlock' = [rwlock EXCEPT ![m].writer = {}]
    /\ pc' = [pc EXCEPT ![t] = "done"]
    /\ UNCHANGED <<aux, tokio_unstable, INSTRUMENTS_INITIALIZED, registrations,
                   instruments, call, cbpc, cb>>

\* `runtimes.push(..)` panics (the vector cannot grow): nothing is stored, and
\* the write guard, dropped by the unwinding thread, poisons the lock
push_panics(t) ==
    LET m == Owner(call[t]) IN
    /\ pc[t] = "push"
    /\ rwlock' = [rwlock EXCEPT ![m].writer = {}, ![m].poisoned = TRUE]
    /\ pc' = [pc EXCEPT ![t] = "panicked"]
    /\ UNCHANGED <<aux, tokio_unstable, INSTRUMENTS_INITIALIZED, RUNTIMES,
                   registrations, instruments, call, cbpc, cb>>

(***************************************************************************)
(* Collection.  The provider invokes the callback of a registered          *)
(* instrument; the callback takes the read lock of the RUNTIMES of         *)
(* src/runtime.rs, observes every entry and drops the guard.               *)
(***************************************************************************)
\* attach calls that have returned
Returned == { t \in Threads : pc[t] = "done" }

\* the provider invokes the callback of one registered instrument; the
\* callback begins with `RUNTIMES.read().unwrap()`, which panics when the
\* lock is poisoned
read_lock(c) ==
    /\ cbpc[c] = "idle"
    /\ CanRead(rwlock["runtime"])
    /\ \E name \in Range(instruments) :
          cb' = [cb EXCEPT ![c] = [instrument |-> name,
                                   after_attach |-> (Returned = Threads),
                                   out |-> <<>>]]
    /\ IF rwlock["runtime"].poisoned
       THEN /\ cbpc' = [cbpc EXCEPT ![c] = "panicked"]
            /\ UNCHANGED rwlock
       ELSE /\ cbpc' = [cbpc EXCEPT ![c] = "iter"]
            /\ rwlock' = [rwlock EXCEPT !["runtime"].readers = @ \cup {c}]
    /\ UNCHANGED <<aux, tokio_unstable, INSTRUMENTS_INITIALIZED, RUNTIMES,
                   registrations, instruments, pc, call>>

\* a loop that pushes the worker index onto the stored labels of each
\* runtime instead of onto a clone of them
collect_InPlace(c) ==
    /\ cbpc[c] = "iter"
    /\ \E checks \in BOOLEAN :
          LET r == Collect(cb[c].instrument, RUNTIMES["runtime"], 1, checks, <<>>)
          IN  /\ cb' = [cb EXCEPT ![c].out = r.out]
              /\ cbpc' = [cbpc EXCEPT ![c] = IF r.panic THEN "panicked" ELSE "observed"]
              /\ rwlock' = IF r.panic
                           THEN [rwlock EXCEPT !["runtime"].readers = @ \ {c}]
                           ELSE rwlock
    /\ RUNTIMES' = [RUNTIMES EXCEPT !["runtime"] =
           [ i \in 1..Len(@) |->
               [@[i] EXCEPT !.labels =
                   IF cb[c].instrument \in GlobalInstruments
                   THEN @
                   ELSE Append(@, worker_idx_attribute(0))] ]]
    /\ UNCHANGED <<aux, tokio_unstable, INSTRUMENTS_INITIALIZED,
                   registrations, instruments, pc, call>>

\* the loop over the runtimes; a panic unwinds and drops the read guard
collect(c) ==
    /\ cbpc[c] = "iter"
    /\ \E checks \in BOOLEAN :
          LET r == Collect(cb[c].instrument, RUNTIMES["runtime"], 1, checks, <<>>)
          IN  /\ cb' = [cb EXCEPT ![c].out = r.out]
              /\ cbpc' = [cbpc EXCEPT ![c] = IF r.panic THEN "panicked" ELSE "observed"]
              /\ rwlock' = IF r.panic
                           THEN [rwlock EXCEPT !["runtime"].readers = @ \ {c}]
                           ELSE rwlock
    /\ UNCHANGED <<aux, tokio_unstable, INSTRUMENTS_INITIALIZED, RUNTIMES,
                   registrations, instruments, pc, call>>

\* the callback returns: the read guard drops
return(c) ==
    /\ cbpc[c] = "observed"
    /\ rwlock' = [rwlock EXCEPT !["runtime"].readers = @ \ {c}]
    /\ cbpc' = [cbpc EXCEPT ![c] = "idle"]
    /\ cb' = [cb EXCEPT ![c] = NoCallback]
    /\ UNCHANGED <<aux, tokio_unstable, INSTRUMENTS_INITIALIZED, RUNTIMES,
                   registrations, instruments, pc, call>>

\* the callback returns as in `return`; the history keeps the attributes the
\* pass of a per-runtime instrument has observed
return_recorded(c) ==
    /\ cbpc[c] = "observed"
    /\ rwlock' = [rwlock EXCEPT !["runtime"].readers = @ \ {c}]
    /\ cbpc' = [cbpc EXCEPT ![c] = "idle"]
    /\ cb' = [cb EXCEPT ![c] = NoCallback]
    /\ last' =
          IF cb[c].instrument \in GlobalInstruments
          THEN { [instrument |-> cb[c].instrument,
                  attributes |-> [ j \in 1..Len(cb[c].out) |->
                                     cb[c].out[j].attributes ]] }
          ELSE last
    /\ UNCHANGED <<narrow, config, given, label, tokio_unstable,
                   INSTRUMENTS_INITIALIZED, RUNTIMES, registrations, instruments,
                   pc, call>>

(***************************************************************************)
(* Numeric narrowing.  Every instrument is declared u64; a count is        *)
(* reported as usize and a duration is converted to the unit of the        *)
(* instrument (a u128) before it is narrowed.  A Duration is whole seconds *)
(* and the nanoseconds of the last second.                                 *)
(***************************************************************************)
Duration(secs, nanos) == [secs |-> secs, nanos |-> nanos]

\* `Duration::as_millis`
as_millis(d) == d.secs * 1000 + d.nanos \div 1000000

\* `Duration::as_nanos`
as_nanos(d) == d.secs * 1000000000 + d.nanos

\* the instruments that narrow a count, and the two that narrow a duration
CountInstruments ==
    {"tokio.workers", "tokio.global_queue_depth", "tokio.alive_tasks"}
DurationInstruments ==
    (IF target_has_atomic_64 THEN {"tokio.worker.busy_duration"} ELSE {})
    \cup (IF tokio_unstable THEN {"tokio.worker.mean_poll_time"} ELSE {})

\* the counts a runtime can report: a usize is no wider than the u64
NativeCounts == 0..U64_MAX

\* the durations a runtime can report: below, at and above the largest
\* number of milliseconds and of nanoseconds that fits the instrument
NativeDurations ==
    { Duration(secs, ms * 1000000 + ns) :
        secs \in {0, 1}, ms \in 0..(U64_MAX + 1), ns \in {0, U64_MAX, U64_MAX + 1, 999999} }

\* the value passed to `instrument.observe`
ObservedValue(instrument, native) ==
    CASE instrument \in CountInstruments -> SaturatingU64(native)
      [] instrument = "tokio.worker.busy_duration" ->
            SaturatingU64(as_millis(native))
      [] instrument = "tokio.worker.mean_poll_time" ->
            SaturatingU64(as_nanos(native))

\* one instrument reads one value of one runtime, narrows it and observes it
observe_value ==
    /\ \E instrument \in CountInstruments \cup DurationInstruments :
       \E native \in IF instrument \in CountInstruments
                     THEN NativeCounts ELSE NativeDurations :
          narrow' = [instrument |-> instrument, native |-> native,
                     observed |-> ObservedValue(instrument, native)]
    /\ UNCHANGED <<shared, config, given, last, label>>

\* a callback builds the worker-index attribute of one worker
build_worker_idx_attribute ==
    /\ \E i \in NativeCounts :
          label' = [native |-> i, attribute |-> worker_idx_attribute(i)]
    /\ UNCHANGED <<shared, narrow, config, given, last>>

\* the ends of the bucket ranges a runtime can report: every number of
\* nanoseconds up to the unsigned maximum, and durations far above it
BucketEnds == { Duration(0, n) : n \in NativeCounts } \cup NativeDurations

\* the histogram callback builds the numeric `le` attribute of one bucket
build_le_attribute ==
    /\ tokio_unstable
    /\ \E end \in BucketEnds :
          label' = [native |-> end, attribute |-> le_attribute(as_nanos(end))]
    /\ UNCHANGED <<shared, narrow, config, given, last>>

(***************************************************************************)
(* The Config builder, used by one caller on its own: the caller gives     *)
(* labels with with_label and with_labels and then attaches runtimes with  *)
(* the Config it has built.                                                *)
(***************************************************************************)
LabelPairs ==
    { KeyValue(k, Str(v)) : k \in {"env", "host"}, v \in {"prod", "staging"} }

\* the arguments of one with_labels call: none, one or two pairs
LabelLists ==
    {<<>>} \cup { <<a>> : a \in LabelPairs }
           \cup { <<a, b>> : a \in LabelPairs, b \in LabelPairs }

\* `self.labels.extend(labels)`
VecExtend(v, items) == v \o items

\* a builder that keeps one pair per key, the last one given
with_label_LastWins(self, key, value) ==
    [labels |-> VecPush(SelectSeq(self.labels, LAMBDA kv : kv.key # key),
                        KeyValue(key, value))]

\* `Config::with_label`
with_label(self, key, value) ==
    [labels |-> VecPush(self.labels, KeyValue(key, value))]

\* `Config::with_labels`
with_labels(self, labels) ==
    [labels |-> VecExtend(self.labels, labels)]

\* the caller calls `.with_label(key, value)` on the Config
call_with_label ==
    /\ RUNTIMES["lib"] = <<>>
    /\ Len(given) < MaxLabels
    /\ \E kv \in LabelPairs :
          /\ config' = with_label(config, kv.key, kv.value)
          /\ given' = given \o <<kv>>
    /\ UNCHANGED <<shared, narrow, last, label>>

\* the caller calls `.with_labels(labels)` on the Config
call_with_labels ==
    /\ RUNTIMES["lib"] = <<>>
    /\ \E labels \in LabelLists :
          /\ Len(given) + Len(labels) <= MaxLabels
          /\ config' = with_labels(config, labels)
          /\ given' = given \o labels
    /\ UNCHANGED <<shared, narrow, last, label>>

\* the caller calls `.observe_runtime(handle)` on the Config, with no other
\* thread in the crate: the latch, the labels, the lock and the push in a row
call_observe_runtime(t) ==
    /\ pc[t] = "idle"
    /\ \A u \in Threads : pc[u] \in {"idle", "done"}
    /\ \E handle \in Handles :
          RUNTIMES' = [RUNTIMES EXCEPT
              !["lib"] = VecPush(@, TrackedRuntime(handle,
                             build_runtime_labels(handle, config.labels)))]
    /\ IF OnceRunsClosure(INSTRUMENTS_INITIALIZED["lib"])
       THEN /\ INSTRUMENTS_INITIALIZED' =
                   [INSTRUMENTS_INITIALIZED EXCEPT !["lib"] = "Complete"]
            /\ registrations' = registrations + 1
            /\ instruments' = instruments \o Catalog
       ELSE UNCHANGED <<INSTRUMENTS_INITIALIZED, registrations, instruments>>
    /\ pc' = [pc EXCEPT ![t] = "done"]
    /\ call' = [call EXCEPT ![t] = "observe_runtime"]
    /\ UNCHANGED <<aux, tokio_unstable, rwlock, cbpc, cb>>

(***************************************************************************)
(* Specifications.  Spec is the crate as its public API drives it: every   *)
(* attach is Config::observe_runtime.  SpecCrate adds track_runtime, the   *)
(* crate-internal attach of src/runtime.rs.                                *)
(***************************************************************************)
AttachStep(t) ==
    \/ call_once_run(t)
    \/ register_all_instruments(t)
    \/ call_once_pass(t)
    \/ write_lock(t)
    \/ push(t)

CallbackStep(c) ==
    \/ read_lock(c)
    \/ collect(c)
    \/ return(c)

Next ==
    \/ \E t \in Threads : observe_runtime(t) \/ AttachStep(t)
    \/ \E c \in Callbacks : CallbackStep(c)

NextCrate ==
    \/ \E t \in Threads : observe_runtime(t) \/ track_runtime(t) \/ AttachStep(t)
    \/ \E c \in Callbacks : CallbackStep(c)

Spec == Init /\ [][Next]_vars

SpecCrate == Init /\ [][NextCrate]_vars

\* attach into the registry the callbacks read (track_runtime), the callbacks
\* and the history of their passes
NextPasses ==
    \/ \E t \in Threads : track_runtime(t) \/ AttachStep(t)
    \/ \E c \in Callbacks : read_lock(c) \/ collect(c) \/ return_recorded(c)

SpecPasses == Init /\ [][NextPasses]_vars

\* Scheduling: a thread inside an attach call and a provider thread inside a
\* callback are not suspended for ever.  Nothing obliges a caller to attach
\* or the provider to collect.
Fairness ==
    /\ \A t \in Threads : WF_vars(AttachStep(t))
    /\ \A c \in Callbacks : WF_vars(collect(c) \/ return(c))

SpecLive == Init /\ [][Next]_vars /\ Fairness

\* the public API with the panics it can meet
NextFaults ==
    \/ \E t \in Threads :
          \/ observe_runtime(t)
          \/ observe_current_runtime(t)
          \/ AttachStep(t)
          \/ register_panics(t)
          \/ call_once_poisoned(t)
          \/ push_panics(t)
    \/ \E c \in Callbacks : CallbackStep(c)

SpecFaults == Init /\ [][NextFaults]_vars

\* the narrowing of single values, one value after another
NextNarrow == observe_value

SpecNarrow == Init /\ [][NextNarrow]_vars

\* the building of single label values, one after another
NextLabels ==
    \/ build_worker_idx_attribute
    \/ build_le_attribute

SpecLabels == Init /\ [][NextLabels]_vars

\* one caller building a Config and attaching runtimes with it
NextConfig ==
    \/ call_with_label
    \/ call_with_labels
    \/ \E t \in Threads : call_observe_runtime(t)

SpecConfig == Init /\ [][NextConfig]_vars

(***************************************************************************)
(* Properties.                                                             *)
(***************************************************************************)
\* the labels build_runtime_labels must give for the arguments `in`
ExpectedLabels(in) ==
    IF tokio_unstable
    THEN in.labels \o << [key |-> "tokio.runtime.id",
                          value |-> [type |-> "String", str |-> in.handle]] >>
    ELSE in.labels

IsPrefix(s, t) == Len(s) <= Len(t) /\ \A i \in 1..Len(s) : s[i] = t[i]

Keys(attrs) == { attrs[i].key : i \in 1..Len(attrs) }

\* C1: a tokio.workers pass that begins after every attach call through the
\* public API has returned emits one observation per attached runtime, each
\* with the labels stored for that runtime and no worker-index label.
C1_PassAfterAttachObservesAll ==
    \A c \in Callbacks :
        (cbpc[c] = "observed" /\ cb[c].instrument = "tokio.workers"
                              /\ cb[c].after_attach)
        => /\ Len(cb[c].out) = NumThreads
           /\ \A i \in 1..Len(cb[c].out) :
                 /\ i <= Len(RUNTIMES["lib"])
                 /\ cb[c].out[i].attributes = RUNTIMES["lib"][i].labels
                 /\ "tokio.worker.index" \notin Keys(cb[c].out[i].attributes)

\* C2: the registry that attach writes holds one entry per attach call that
\* has returned, and every entry pairs the handle of one call with the labels
\* of that same call followed by the conditional identity label.
C2_OneEntryPerAttach ==
    /\ Len(RUNTIMES["lib"]) = Cardinality(Returned)
    /\ \A i \in 1..Len(RUNTIMES["lib"]) :
          \E in \in AttachInputs :
              RUNTIMES["lib"][i] = [metrics |-> in.handle, labels |-> ExpectedLabels(in)]

C2_Witness ==
    /\ Returned = Threads
    /\ Len(RUNTIMES["lib"]) = NumThreads
    /\ \E i, j \in 1..Len(RUNTIMES["lib"]) :
          RUNTIMES["lib"][i].metrics # RUNTIMES["lib"][j].metrics

\* C3: register_all_instruments has not run before the first attach call, and
\* has run exactly once as soon as any attach call is past the latch; it never
\* runs a second time.
C3_RegisteredExactlyOnce ==
    /\ registrations <= 1
    /\ (\A t \in Threads : pc[t] = "idle") => registrations = 0
    /\ (\E t \in Threads : pc[t] \in {"register", "write", "push", "done"})
          => registrations = 1
    /\ Len(instruments) <= Len(Catalog)

C3_Witness ==
    /\ registrations = 1
    /\ \A t \in Threads : pc[t] \in {"write", "push", "done"}

\* C4: a registry holds an entry only when the latch of its module is
\* complete and the catalog is registered, and every thread that is past the
\* latch sees it complete.
C4_RegisteredBeforeFirstEntry ==
    /\ \A m \in Modules :
          RUNTIMES[m] # <<>>
          => /\ INSTRUMENTS_INITIALIZED[m] = "Complete"
             /\ Range(Catalog) \subseteq Range(instruments)
    /\ \A t \in Threads :
          pc[t] \in {"write", "push", "done"}
          => INSTRUMENTS_INITIALIZED[Owner(call[t])] = "Complete"

C4_Witness ==
    /\ RUNTIMES["lib"] # <<>>
    /\ \E t \in Threads : pc[t] = "push"

\* C5: no attach holds the exclusive lock of the registry it appends to while
\* a callback holds the shared lock of the registry it iterates.
C5_AttachExcludesCallback ==
    ~ ( /\ \E t \in Threads : pc[t] = "push" /\ t \in rwlock[Owner(call[t])].writer
        /\ \E c \in Callbacks : c \in rwlock["runtime"].readers )

C7_AppendOnly ==
    [][\A m \in Modules : IsPrefix(RUNTIMES[m], RUNTIMES'[m])]_vars

C7_Witness ==
    \E m \in Modules : Len(RUNTIMES[m]) >= 2 /\ RUNTIMES[m][1] # RUNTIMES[m][2]

\* the stored label sequences of the runtimes of a registry, in order
RECURSIVE PerWorkerExpected(_)
PerWorkerExpected(runtimes) ==
    IF runtimes = <<>>
    THEN <<>>
    ELSE LET r == Head(runtimes) IN
         [ i \in 1..num_workers(r.metrics) |->
             [ value |-> worker_park_count(r.metrics, i - 1),
               attributes |-> r.labels \o
                   << [key |-> "tokio.worker.index",
                       value |-> [type |-> "I64", i64 |-> i - 1]] >> ] ]
         \o PerWorkerExpected(Tail(runtimes))

\* C8: a completed pass of a per-runtime instrument has emitted exactly one
\* observation per runtime of the registry it reads, in registry order, each
\* with the runtime's stored labels verbatim and neither a worker-index nor a
\* bucket label.
C8_GlobalOnePerRuntime ==
    \A c \in Callbacks :
        (cbpc[c] = "observed" /\ cb[c].instrument \in GlobalInstruments)
        => /\ Len(cb[c].out) = Len(RUNTIMES["runtime"])
           /\ \A i \in 1..Len(cb[c].out) :
                 /\ cb[c].out[i].attributes = RUNTIMES["runtime"][i].labels
                 /\ Keys(cb[c].out[i].attributes) \cap {"tokio.worker.index", "le"} = {}

C8_Witness ==
    \E c \in Callbacks :
        /\ cbpc[c] = "observed"
        /\ cb[c].instrument = "tokio.alive_tasks"
        /\ Len(cb[c].out) = NumThreads
        /\ cb[c].out[1].attributes # cb[c].out[2].attributes

\* C9: a completed pass of a per-worker instrument has emitted, for each
\* runtime of the registry it reads in order, one observation per worker index
\* 0..num_workers-1 in ascending order, with the runtime's stored labels
\* followed by tokio.worker.index = that index and the counter of that worker.
C9_PerWorkerOnePerIndex ==
    \A c \in Callbacks :
        (cbpc[c] = "observed" /\ cb[c].instrument \in WorkerInstruments)
        => cb[c].out = PerWorkerExpected(RUNTIMES["runtime"])

C9_Witness ==
    \E c \in Callbacks :
        /\ cbpc[c] = "observed"
        /\ cb[c].instrument \in WorkerInstruments
        /\ Len(RUNTIMES["runtime"]) = NumThreads
        /\ \E i \in 1..Len(RUNTIMES["runtime"]) :
              num_workers(RUNTIMES["runtime"][i].metrics) = MaxWorkers
        /\ Len(cb[c].out) > MaxWorkers

\* the sum of the per-bucket counts of worker w over the buckets 0..k
RECURSIVE BucketSum(_, _, _)
BucketSum(h, w, k) ==
    IF k < 0 THEN 0
    ELSE poll_time_histogram_bucket_count(h, w, k) + BucketSum(h, w, k - 1)

\* the cumulative values of one runtime: per worker, per bucket
CumulativeValues(h) ==
    LET n == poll_time_histogram_num_buckets(h)
        count == num_workers(h) * n
    IN  IF ~ poll_time_histogram_enabled(h) \/ n = 0
        THEN <<>>
        ELSE [ j \in 1..count |-> BucketSum(h, (j - 1) \div n, (j - 1) % n) ]

RECURSIVE HistogramExpectedValues(_)
HistogramExpectedValues(runtimes) ==
    IF runtimes = <<>>
    THEN <<>>
    ELSE CumulativeValues(Head(runtimes).metrics)
         \o HistogramExpectedValues(Tail(runtimes))

\* C10: a completed pass of the poll-time histogram has emitted, for every
\* histogram-enabled runtime, worker and bucket k, the sum of that worker's
\* per-bucket counts over the buckets 0..k (hence values that do not decrease
\* along the buckets of one worker).
C10_CumulativeBucketSums ==
    \A c \in Callbacks :
        (cbpc[c] = "observed" /\ cb[c].instrument = HistogramInstrument)
        => [ j \in 1..Len(cb[c].out) |-> cb[c].out[j].value ]
               = HistogramExpectedValues(RUNTIMES["runtime"])

\* the `le` label of bucket b (counted from 0) of a runtime with n buckets
ExpectedLe(h, n, b) ==
    IF b = n - 1
    THEN [key |-> "le", value |-> [type |-> "String", str |-> "+Inf"]]
    ELSE LET end == poll_time_histogram_bucket_end_nanos(h, b) IN
         [key |-> "le",
          value |-> [type |-> "I64",
                     i64 |-> IF end > I64_MAX THEN I64_MAX ELSE end]]

\* the attribute sequences of the histogram observations of one runtime:
\* W * N of them, worker by worker, bucket by bucket
HistogramAttributes(r) ==
    LET n == poll_time_histogram_num_buckets(r.metrics)
        count == num_workers(r.metrics) * n
    IN  IF ~ poll_time_histogram_enabled(r.metrics)
        THEN <<>>
        ELSE [ j \in 1..count |->
                 r.labels \o
                 << [key |-> "tokio.worker.index",
                     value |-> [type |-> "I64", i64 |-> (j - 1) \div n]],
                    ExpectedLe(r.metrics, n, (j - 1) % n) >> ]

RECURSIVE HistogramExpectedAttributes(_)
HistogramExpectedAttributes(runtimes) ==
    IF runtimes = <<>>
    THEN <<>>
    ELSE HistogramAttributes(Head(runtimes))
         \o HistogramExpectedAttributes(Tail(runtimes))

\* C11: a pass of the poll-time histogram whose runtime loop has ended has
\* emitted, for every histogram-enabled runtime with W workers and N buckets,
\* exactly W * N observations, one per (worker, bucket) pair, labelled with
\* the runtime labels, the worker index and `le`; `le` is "+Inf" for the last
\* bucket and the bucket's upper bound in nanoseconds for every other bucket,
\* the same for all workers.
C11_HistogramOnePerWorkerBucket ==
    \A c \in Callbacks :
        (cbpc[c] \in {"observed", "panicked"} /\ cb[c].instrument = HistogramInstrument)
        => [ j \in 1..Len(cb[c].out) |-> cb[c].out[j].attributes ]
               = HistogramExpectedAttributes(RUNTIMES["runtime"])

\* the same for the passes that complete
C11_CompletedPasses ==
    \A c \in Callbacks :
        (cbpc[c] = "observed" /\ cb[c].instrument = HistogramInstrument)
        => [ j \in 1..Len(cb[c].out) |-> cb[c].out[j].attributes ]
               = HistogramExpectedAttributes(RUNTIMES["runtime"])

\* a duration in whole units of `unit` nanoseconds
InUnit(d, unit) == (d.secs * 1000000000 + d.nanos) \div unit

\* the native value of an observation, in the unit of its instrument
NativeInUnit(v) ==
    CASE v.instrument = "tokio.worker.busy_duration" -> InUnit(v.native, 1000000)
      [] v.instrument = "tokio.worker.mean_poll_time" -> InUnit(v.native, 1)
      [] OTHER -> v.native

\* C12: the value an instrument observes is the smaller of the native value
\* (a count, or a duration in milliseconds for tokio.worker.busy_duration and
\* in nanoseconds for tokio.worker.mean_poll_time) and the maximum of the
\* unsigned width of the instrument: a larger value is observed as that
\* maximum, never modulo 2^width.
C12_NarrowingSaturates ==
    narrow # NoValue
    => narrow.observed = IF NativeInUnit(narrow) > U64_MAX
                         THEN U64_MAX
                         ELSE NativeInUnit(narrow)

C12_Witness ==
    /\ narrow.instrument = "tokio.worker.busy_duration"
    /\ NativeInUnit(narrow) > 2 * U64_MAX
    /\ narrow.native.nanos % 1000000 # 0
    /\ narrow.observed = U64_MAX

\* C13: the labels stored for a runtime attached with a Config are the pairs
\* the Config was given, in call order (one pair per with_label, the pairs of
\* a with_labels in their order), followed by tokio.runtime.id exactly when
\* the crate is built with tokio_unstable; pairs with equal keys are all kept.
C13_StoredLabelsAreGivenLabels ==
    /\ config.labels = given
    /\ \A i \in 1..Len(RUNTIMES["lib"]) :
          LET stored == RUNTIMES["lib"][i].labels IN
          /\ IsPrefix(given, stored)
          /\ Len(stored) = Len(given) + (IF tokio_unstable THEN 1 ELSE 0)
          /\ tokio_unstable
             => stored[Len(stored)] =
                    [key |-> "tokio.runtime.id",
                     value |-> [type |-> "String",
                                str |-> RUNTIMES["lib"][i].metrics]]

C13_Witness ==
    /\ Len(RUNTIMES["lib"]) = NumThreads
    /\ Len(given) = MaxLabels
    /\ \E i, j \in 1..Len(given) :
          i < j /\ given[i].key = given[j].key /\ given[i].value # given[j].value
    /\ Len(RUNTIMES["lib"][1].labels) > MaxLabels

\* C14: the step in which observe_current_runtime panics for want of a
\* runtime context changes neither a registry nor a latch, registers no
\* instrument and takes no lock.
C14_NoContextNoEffect ==
    [][ \A t \in Threads :
          (pc[t] = "idle" /\ pc'[t] = "panicked")
          => UNCHANGED <<RUNTIMES, INSTRUMENTS_INITIALIZED, registrations,
                         instruments, rwlock>> ]_vars

C14_Witness ==
    /\ \E t \in Threads : pc[t] = "panicked" /\ call[t] = NoCall
    /\ \E t \in Threads : pc[t] = "done"
    /\ Len(RUNTIMES["lib"]) = 1
    /\ registrations = 1

\* C15: once a registry lock is poisoned, the step in which an attach call
\* leaves `write()` and the step in which a callback begins both end in the
\* panic: the attach appends no entry and the callback observes nothing.
C15_PoisonIsFatal ==
    [][ (\E m \in Modules : rwlock[m].poisoned)
        => /\ \A t \in Threads :
                 (pc[t] = "write" /\ pc'[t] # "write")
                 => (pc'[t] = "panicked" /\ RUNTIMES' = RUNTIMES)
           /\ \A c \in Callbacks :
                 (cbpc[c] = "idle" /\ cbpc'[c] # "idle")
                 => (cbpc'[c] = "panicked" /\ cb'[c].out = <<>>) ]_vars

\* the attach half of C15, which the code meets
C15_PoisonIsFatalToAttach ==
    [][ \A t \in Threads :
          (pc[t] = "write" /\ pc'[t] # "write" /\ rwlock[Owner(call[t])].poisoned)
          => (pc'[t] = "panicked" /\ RUNTIMES' = RUNTIMES) ]_vars

\* C16: while the lock of the registry the callbacks read is not poisoned, no
\* callback ends in a panic, whatever the registry holds and whatever the
\* runtimes report, the per-bucket counts of the histogram included.
C16_CallbackNeverPanics ==
    \A c \in Callbacks :
        cbpc[c] = "panicked" => rwlock["runtime"].poisoned

\* the number of observations one runtime receives in a pass of a per-worker
\* instrument or of the histogram
FullShare(name, r) ==
    IF name = HistogramInstrument
    THEN IF poll_time_histogram_enabled(r.metrics)
         THEN num_workers(r.metrics) * poll_time_histogram_num_buckets(r.metrics)
         ELSE 0
    ELSE num_workers(r.metrics)

\* the stored labels of the runtimes, each repeated once per observation the
\* runtime receives
RECURSIVE SharesInOrder(_, _)
SharesInOrder(name, runtimes) ==
    IF runtimes = <<>>
    THEN <<>>
    ELSE [ j \in 1..FullShare(name, Head(runtimes)) |-> Head(runtimes).labels ]
         \o SharesInOrder(name, Tail(runtimes))

\* the runtime labels an observation of a per-worker instrument or of the
\* histogram begins with
RuntimeLabelsOf(name, attributes) ==
    SubSeq(attributes, 1,
           Len(attributes) - (IF name = HistogramInstrument THEN 2 ELSE 1))

\* C17: in a pass of a per-worker instrument or of the histogram whose
\* runtime loop has ended, a runtime with the histogram disabled (histogram
\* pass) or with no worker has received no observation and every other
\* runtime of the registry, before or after it, has received its full set.
C17_SkippingIsLocal ==
    \A c \in Callbacks :
        (/\ cbpc[c] \in {"observed", "panicked"}
         /\ cb[c].instrument \in WorkerInstruments \cup {HistogramInstrument})
        => [ j \in 1..Len(cb[c].out) |->
               RuntimeLabelsOf(cb[c].instrument, cb[c].out[j].attributes) ]
               = SharesInOrder(cb[c].instrument, RUNTIMES["runtime"])

\* the same for the passes that complete
C17_CompletedPasses ==
    \A c \in Callbacks :
        (/\ cbpc[c] = "observed"
         /\ cb[c].instrument \in WorkerInstruments \cup {HistogramInstrument})
        => [ j \in 1..Len(cb[c].out) |->
               RuntimeLabelsOf(cb[c].instrument, cb[c].out[j].attributes) ]
               = SharesInOrder(cb[c].instrument, RUNTIMES["runtime"])

\* C18: under fair scheduling every attach call that has started returns and
\* every callback that has started completes and returns: no thread waits for
\* ever for the latch or for the lock.  (A thread is again and again outside
\* an attach call, a provider thread again and again outside a callback.)
C18_AttachAndCallbackTerminate ==
    /\ \A t \in Threads : []<>(pc[t] \in {"idle", "done"})
    /\ \A c \in Callbacks : []<>(cbpc[c] = "idle")

C18_Witness ==
    /\ \E t \in Threads : pc[t] = "write" /\ ~ CanWrite(rwlock[Owner(call[t])])
    /\ \E t \in Threads : pc[t] = "push"
    /\ \A c \in Callbacks : cbpc[c] = "iter"

\* C19: a step of a callback changes no registry, no latch and no registered
\* instrument; and two passes of one instrument that have completed over the
\* same registry have emitted the same sequence of observations.
C19_CallbackChangesNoSharedState ==
    /\ [][ cbpc' # cbpc
           => UNCHANGED <<RUNTIMES, INSTRUMENTS_INITIALIZED, registrations,
                          instruments>> ]_vars
    /\ [](\A c, d \in Callbacks :
            (/\ cbpc[c] = "observed" /\ cbpc[d] = "observed"
             /\ cb[c].instrument = cb[d].instrument)
            => cb[c].out = cb[d].out)

C19_Witness ==
    /\ \A c \in Callbacks :
          /\ cbpc[c] = "observed"
          /\ cb[c].instrument = HistogramInstrument
          /\ Len(cb[c].out) > MaxWorkers * MaxBuckets
    /\ Len(RUNTIMES["runtime"]) = NumThreads

\* C20: when catalog registration has panicked inside the latch of a module,
\* the registry of that module is empty and no attach call on it is or has
\* been past the latch: the call that ran the registration and every other
\* call waits at the latch or has panicked; and a registry that holds an
\* entry has a complete latch and the whole catalog registered.
C20_FailedRegistrationIsFatal ==
    \A m \in Modules :
        /\ INSTRUMENTS_INITIALIZED[m] = "Poisoned"
           => /\ RUNTIMES[m] = <<>>
              /\ \A t \in Threads :
                    (call[t] # NoCall /\ Owner(call[t]) = m)
                    => pc[t] \in {"call_once", "panicked"}
        /\ RUNTIMES[m] # <<>>
           => /\ INSTRUMENTS_INITIALIZED[m] = "Complete"
              /\ IsPrefix(Catalog, instruments)

C20_Witness ==
    /\ INSTRUMENTS_INITIALIZED["lib"] = "Poisoned"
    /\ \A t \in Threads : pc[t] = "panicked" /\ call[t] = "observe_runtime"
    /\ instruments # <<>>
    /\ registrations = 1

\* C21: across the attach entry points of the crate, Config::observe_runtime
\* and track_runtime in any interleaving, register_all_instruments runs at
\* most once, no instrument is registered twice and all entries are in one
\* registry.
C21_OneCatalogOneRegistry ==
    /\ registrations <= 1
    /\ Len(instruments) <= Len(Catalog)
    /\ RUNTIMES["lib"] = <<>> \/ RUNTIMES["runtime"] = <<>>

\* C22: the attributes a completed pass of a per-runtime instrument has
\* observed begin with the attributes the pass of the same instrument that
\* returned last before it observed: the number of runtimes observed has not decreased and
\* every runtime observed before is observed again with the same labels.
C22_PassesOnlyGrow ==
    \A c \in Callbacks : \A p \in last :
        (cbpc[c] = "observed" /\ cb[c].instrument = p.instrument)
        => IsPrefix(p.attributes,
                    [ j \in 1..Len(cb[c].out) |-> cb[c].out[j].attributes ])

C22_Witness ==
    \E c \in Callbacks : \E p \in last :
        /\ cbpc[c] = "observed"
        /\ cb[c].instrument = p.instrument
        /\ p.attributes # <<>>
        /\ Len(cb[c].out) > Len(p.attributes)
        /\ cb[c].out[Len(cb[c].out)].attributes # p.attributes[1]

\* the native number a label was built from: a worker index, or the end of a
\* bucket range in nanoseconds
LabelNative(l) ==
    IF l.attribute.key = "le"
    THEN l.native.secs * 1000000000 + l.native.nanos
    ELSE l.native

\* C23: a label built from a native number is a signed integer equal to the
\* smaller of that number and the signed maximum, for tokio.worker.index and
\* for the numeric `le` alike; it is never negative.
C23_LabelValuesSaturate ==
    label.attribute.key # ""
    => /\ label.attribute.key \in {"tokio.worker.index", "le"}
       /\ label.attribute.value.type = "I64"
       /\ label.attribute.value.i64 >= 0
       /\ label.attribute.value.i64 =
             IF LabelNative(label) > I64_MAX THEN I64_MAX ELSE LabelNative(label)

C23_Witness ==
    /\ label.attribute.key = "le"
    /\ LabelNative(label) > U64_MAX
    /\ label.attribute.value.i64 = I64_MAX

====
